---- MODULE Spec2Model ----
(***************************************************************************)
(* Model of crates/utils/src/settings/mod.rs: the process-wide Settings    *)
(* store (a lazily initialised RwLock<Settings>), the two lazily computed  *)
(* webfinger regexes, the config file it is loaded from and saved to, and  *)
(* the pure helpers on a Settings record.                                  *)
(*                                                                         *)
(* Strings the code inspects character by character (hostname, the         *)
(* additional_slurs fragment) are sequences of one-character strings.      *)
(* A panic is modelled as the unwinding of the calling thread: the call    *)
(* yields no value, guards held by the thread are dropped (poisoning the   *)
(* RwLock if it was write-locked) and a lazy_static whose initialiser      *)
(* panicked stays poisoned.                                                *)
(***************************************************************************)
EXTENDS Integers, Sequences, FiniteSets, TLC

VARIABLES
    env,                        \* the LEMMY_CONFIG_LOCATION environment variable
    fs,                         \* the file system: path -> file text
    SETTINGS,                   \* lazy_static RwLock<Settings>
    WEBFINGER_COMMUNITY_REGEX,  \* lazy_static Regex
    WEBFINGER_USER_REGEX,       \* lazy_static Regex
    pc,                         \* per thread: position inside save_config_file
    data,                       \* per thread: the argument of its save_config_file
    ret,                        \* per thread: outcome of its last finished call
    undisturbed,                \* history: no other thread ran a save step since
                                \* this thread's last save_config_file began
    first_loaded,               \* history: record installed at first initialisation
    self_in,                    \* input of the pure helpers
    pure_out                    \* outcome of the pure helper applied to self_in

vars == <<env, fs, SETTINGS, WEBFINGER_COMMUNITY_REGEX, WEBFINGER_USER_REGEX,
          pc, data, ret, undisturbed, first_loaded, self_in, pure_out>>

store_vars == <<env, fs, SETTINGS, WEBFINGER_COMMUNITY_REGEX, WEBFINGER_USER_REGEX,
                pc, data, ret, undisturbed, first_loaded>>

(***************************************************************************)
(* Bounds                                                                  *)
(***************************************************************************)
MaxHostLen == 3     \* longest hostname drawn for the pure helpers
MaxFragLen == 2     \* longest additional_slurs fragment drawn for slur_regex

\* Two threads give every interleaving the properties speak of: a saver and an
\* observer, or two overlapping savers.
Threads == {"t1", "t2"}

(***************************************************************************)
(* Values                                                                  *)
(***************************************************************************)
Ok(v)     == [kind |-> "Ok", val |-> v]
Err(e)    == [kind |-> "Err", val |-> [err |-> e]]
Panic(m)  == [kind |-> "Panic", val |-> [err |-> m]]

None      == [some |-> FALSE, val |-> <<>>]
Some(v)   == [some |-> TRUE, val |-> v]

UNSET == <<"u", "n", "s", "e", "t">>

DEFAULT_CONFIG_FILE == "config/config.hjson"

\* std::env::var outcomes
NotPresent   == [kind |-> "NotPresent", val |-> ""]
NotUnicode   == [kind |-> "NotUnicode", val |-> ""]
Present(s)   == [kind |-> "Present", val |-> s]

RECURSIVE SeqsUpTo(_, _)
SeqsUpTo(S, n) ==
    IF n = 0 THEN {<<>>}
    ELSE LET shorter == SeqsUpTo(S, n - 1)
         IN  shorter \cup {Append(s, x) : s \in shorter, x \in S}

(***************************************************************************)
(* The Settings record (structs::Settings, fields the code reads) and the  *)
(* text of a config file.  A file text is either not valid hjson for a     *)
(* Settings record or carries the fields; `comment` distinguishes texts    *)
(* that decode to the same record.                                         *)
(***************************************************************************)
SettingsRec(h, s, tls) == [hostname |-> h, additional_slurs |-> s, tls_enabled |-> tls]

Text(h, s, tls, c) ==
    [syntax |-> "ok", hostname |-> h, additional_slurs |-> s, tls_enabled |-> tls,
     comment |-> c]

Garbage ==
    [syntax |-> "bad", hostname |-> <<>>, additional_slurs |-> None,
     tls_enabled |-> FALSE, comment |-> 0]

NoFile ==
    [syntax |-> "absent", hostname |-> <<>>, additional_slurs |-> None,
     tls_enabled |-> FALSE, comment |-> 0]

\* deser_hjson::from_str::<Settings>
from_str(text) ==
    IF text.syntax = "ok"
    THEN Ok(SettingsRec(text.hostname, text.additional_slurs, text.tls_enabled))
    ELSE Err("hjson")

(***************************************************************************)
(* Regex compilation (the regex crate), abstracted to the one property the *)
(* code depends on: a pattern compiles iff its parentheses are balanced.   *)
(***************************************************************************)
RECURSIVE Depth(_, _)
Depth(p, d) ==
    IF d < 0 THEN -1
    ELSE IF p = <<>> THEN d
    ELSE IF Head(p) = "(" THEN Depth(Tail(p), d + 1)
    ELSE IF Head(p) = ")" THEN Depth(Tail(p), d - 1)
    ELSE Depth(Tail(p), d)

RegexCompiles(pattern) == Depth(pattern, 0) = 0

(***************************************************************************)
(* The file system, as far as std::fs::read_to_string and std::fs::write   *)
(* are used: the empty path names no file.                                 *)
(***************************************************************************)
Paths == {DEFAULT_CONFIG_FILE, "alt.hjson"}

fs_read_to_string(f, path) ==
    IF path \in Paths /\ f[path] # NoFile THEN Ok(f[path]) ELSE Err("io")

fs_write_lost(f, path, d) ==
    IF path \in Paths THEN Ok([fs |-> f]) ELSE Err("io")

fs_write(f, path, d) ==
    IF path \in Paths THEN Ok([fs |-> [f EXCEPT ![path] = d]]) ELSE Err("io")

(***************************************************************************)
(* Settings: the functions of impl Settings that do not touch SETTINGS     *)
(***************************************************************************)
get_config_location_nonempty(e) ==
    IF e.kind = "Present" /\ e.val # "" THEN e.val ELSE DEFAULT_CONFIG_FILE

\* env::var(..).unwrap_or_else(|_| DEFAULT_CONFIG_FILE.to_string())
get_config_location(e) ==
    IF e.kind = "Present" THEN e.val ELSE DEFAULT_CONFIG_FILE

read_config_file(e, f) == fs_read_to_string(f, get_config_location(e))

init_unchecked(e, f) ==
    LET text == read_config_file(e, f)
    IN  IF text.kind # "Ok" THEN text ELSE from_str(text.val)

init(e, f) ==
    LET text == read_config_file(e, f)
    IN  IF text.kind # "Ok" THEN text
        ELSE LET config == from_str(text.val)
             IN  IF config.kind # "Ok" THEN config
                 ELSE IF config.val.hostname = UNSET
                      THEN Err("Hostname variable is not set!")
                      ELSE config

\* str::split(sep).collect::<Vec<&str>>()
RECURSIVE split(_, _)
split(s, sep) ==
    IF \A i \in 1..Len(s) : s[i] # sep THEN <<s>>
    ELSE LET i == CHOOSE k \in 1..Len(s) :
                      s[k] = sep /\ \A j \in 1..(k - 1) : s[j] # sep
         IN  <<SubSeq(s, 1, i - 1)>> \o split(SubSeq(s, i + 1, Len(s)), sep)

last_segment(v) == IF Len(v) = 0 THEN None ELSE Some(v[Len(v)])

\* slice::first()
first(v) == IF Len(v) = 0 THEN None ELSE Some(v[1])

get_hostname_without_port(self) ==
    LET seg == first(split(self.hostname, ":"))
    IN  IF seg.some THEN Ok([str |-> seg.val]) ELSE Err("location_info")

SLUR_BASE == <<"(fag(g|got|tard)?\\b|...|\\b(b|re|r)tard(ed)?s?)">>

slur_pattern_base_only(self) == SLUR_BASE

slur_pattern(self) ==
    IF self.additional_slurs.some
    THEN SLUR_BASE \o <<"|">> \o self.additional_slurs.val
    ELSE SLUR_BASE

\* RegexBuilder::new(&slurs).case_insensitive(true).build().expect("compile regex")
slur_regex(self) ==
    LET slurs == slur_pattern(self)
    IN  IF RegexCompiles(slurs)
        THEN Ok([pattern |-> slurs])
        ELSE Panic("compile regex")

(***************************************************************************)
(* SETTINGS: lazy_static RwLock<Settings>.  `once` is the state of the     *)
(* lazy_static cell, `poisoned` and `writer` the state of the RwLock.      *)
(* Read guards live only inside get(), so get() is one step that needs the *)
(* lock free of a writer.                                                  *)
(***************************************************************************)
NoSettings == SettingsRec(<<>>, None, FALSE)

SETTINGS_uninit ==
    [once |-> "uninit", value |-> NoSettings, poisoned |-> FALSE, writer |-> "none"]

deref_SETTINGS_or_default(S, e, f) ==
    IF S.once # "uninit" THEN S
    ELSE LET r == init(e, f)
         IN  IF r.kind = "Ok"
             THEN [S EXCEPT !.once = "ready", !.value = r.val]
             ELSE [S EXCEPT !.once = "ready", !.value = SettingsRec(UNSET, None, FALSE)]

\* First dereference runs RwLock::new(Settings::init().expect(..)); a panic in
\* the initialiser poisons the cell for every later dereference.
deref_SETTINGS(S, e, f) ==
    IF S.once # "uninit" THEN S
    ELSE LET r == init(e, f)
         IN  IF r.kind = "Ok"
             THEN [S EXCEPT !.once = "ready", !.value = r.val]
             ELSE [S EXCEPT !.once = "poisoned"]

\* SETTINGS.read().expect("read config").to_owned(), on the dereferenced cell
get_value(S) ==
    IF S.once # "ready" THEN Panic("Failed to load settings file")
    ELSE IF S.poisoned THEN Panic("read config")
    ELSE Ok(S.value)

\* What Settings::get() returns (and leaves SETTINGS as) when called now
get_now(S, e, f) == get_value(deref_SETTINGS(S, e, f))

keep_old_settings(S, c) == S

\* *new_settings = c
assign_settings(S, c) == [S EXCEPT !.value = c]

release_unpoisoned(S) == [S EXCEPT !.writer = "none"]

\* the write guard dropped while the thread panics
drop_guard_panicking(S) == [S EXCEPT !.poisoned = TRUE, !.writer = "none"]

\* the write guard dropped at the end of save_config_file
drop_guard(S) == [S EXCEPT !.writer = "none"]

(***************************************************************************)
(* WEBFINGER_COMMUNITY_REGEX / WEBFINGER_USER_REGEX: lazy_static Regex     *)
(***************************************************************************)
NoRegex == [pattern |-> <<>>]

REGEX_uninit == [once |-> "uninit", value |-> NoRegex]

COMMUNITY_PREFIX == <<"^group:([a-z0-9_]{3,})@">>
USER_PREFIX      == <<"^acct:([a-z0-9_]{3,})@">>

\* format!("^group:([a-z0-9_]{{3,}})@{}$", hostname)
webfinger_pattern(prefix, hostname) == prefix \o hostname \o <<"$">>

\* the hostname a webfinger pattern was formatted from
embedded_hostname(pattern) == SubSeq(pattern, 2, Len(pattern) - 1)

deref_REGEX_recomputing(W, prefix, g) ==
    IF W.once = "poisoned" THEN W
    ELSE IF g.kind # "Ok" THEN [W EXCEPT !.once = "poisoned"]
    ELSE LET pattern == webfinger_pattern(prefix, g.val.hostname)
         IN  IF RegexCompiles(pattern)
             THEN [once |-> "ready", value |-> [pattern |-> pattern]]
             ELSE [W EXCEPT !.once = "poisoned"]

\* First dereference runs Regex::new(&format!(.., Settings::get().hostname))
\* .expect("compile webfinger regex"); g is the outcome of that Settings::get().
deref_REGEX(W, prefix, g) ==
    IF W.once # "uninit" THEN W
    ELSE IF g.kind # "Ok" THEN [W EXCEPT !.once = "poisoned"]
    ELSE LET pattern == webfinger_pattern(prefix, g.val.hostname)
         IN  IF RegexCompiles(pattern)
             THEN [once |-> "ready", value |-> [pattern |-> pattern]]
             ELSE [W EXCEPT !.once = "poisoned"]

\* WEBFINGER_..._REGEX.to_owned(), on the dereferenced cell
regex_value(W) ==
    IF W.once = "ready" THEN Ok(W.value) ELSE Panic("compile webfinger regex")

(***************************************************************************)
(* The store: threads calling the associated functions of Settings         *)
(***************************************************************************)
\* texts a thread may pass to save_config_file
SaveTexts ==
    { Text(<<"a">>, None, TRUE, 0),
      Text(<<"b", ":", "8">>, Some(<<"(">>), FALSE, 0),
      Text(UNSET, None, TRUE, 0),
      Garbage }

\* texts the config file may hold when the process starts
StoreTexts ==
    SaveTexts \cup { Text(<<"a">>, None, TRUE, 1), Text(<<"(">>, None, TRUE, 0) }

StoreEnvs == {NotPresent, Present("")}

Outcome(op, arg, r) == [op |-> op, arg |-> arg, kind |-> r.kind, val |-> r.val]

NoCall == Outcome("none", NoFile, Ok(NoFile))

\* the history of the first successful initialisation of SETTINGS
loaded(S, S2) ==
    IF S.once = "uninit" /\ S2.once = "ready" THEN Some(S2.value) ELSE first_loaded

\* every step of t's save_config_file disturbs the other threads' saves
disturb(t) == [u \in Threads |-> IF u = t THEN undisturbed[t] ELSE FALSE]

Init ==
    /\ env \in StoreEnvs
    /\ \E text \in StoreTexts \cup {NoFile} :
          fs = [p \in Paths |-> IF p = get_config_location(env) THEN text ELSE NoFile]
    /\ SETTINGS = SETTINGS_uninit
    /\ WEBFINGER_COMMUNITY_REGEX = REGEX_uninit
    /\ WEBFINGER_USER_REGEX = REGEX_uninit
    /\ pc = [t \in Threads |-> "idle"]
    /\ data = [t \in Threads |-> NoFile]
    /\ ret = [t \in Threads |-> NoCall]
    /\ undisturbed = [t \in Threads |-> FALSE]
    /\ first_loaded = None
    /\ self_in = NoSettings
    /\ pure_out = NoCall

\* Settings::get()
get(t) ==
    /\ pc[t] = "idle"
    /\ SETTINGS.writer = "none"
    /\ LET S == deref_SETTINGS(SETTINGS, env, fs)
       IN  /\ SETTINGS' = S
           /\ first_loaded' = loaded(SETTINGS, S)
           /\ ret' = [ret EXCEPT ![t] = Outcome("get", NoFile, get_value(S))]
    /\ UNCHANGED <<env, fs, WEBFINGER_COMMUNITY_REGEX, WEBFINGER_USER_REGEX,
                   pc, data, undisturbed, self_in, pure_out>>

\* Settings::read_config_file()
read(t) ==
    /\ pc[t] = "idle"
    /\ ret' = [ret EXCEPT ![t] = Outcome("read", NoFile, read_config_file(env, fs))]
    /\ UNCHANGED <<env, fs, SETTINGS, WEBFINGER_COMMUNITY_REGEX, WEBFINGER_USER_REGEX,
                   pc, data, undisturbed, first_loaded, self_in, pure_out>>

\* save_config_file, line 95: fs::write(Settings::get_config_location(), data)?
save_config_file_write(t, d) ==
    /\ pc[t] = "idle"
    /\ LET w == fs_write(fs, get_config_location(env), d)
       IN  IF w.kind = "Ok"
           THEN /\ fs' = w.val.fs
                /\ pc' = [pc EXCEPT ![t] = "written"]
                /\ data' = [data EXCEPT ![t] = d]
                /\ ret' = [ret EXCEPT ![t] = NoCall]
           ELSE /\ ret' = [ret EXCEPT ![t] = Outcome("save", d, w)]
                /\ UNCHANGED <<fs, pc, data>>
    /\ undisturbed' = [u \in Threads |-> u = t]
    /\ UNCHANGED <<env, SETTINGS, WEBFINGER_COMMUNITY_REGEX, WEBFINGER_USER_REGEX,
                   first_loaded, self_in, pure_out>>

\* save_config_file, line 99: SETTINGS.write().expect("write config")
save_config_file_lock(t) ==
    /\ pc[t] = "written"
    /\ SETTINGS.writer = "none"
    /\ LET S == deref_SETTINGS(SETTINGS, env, fs)
       IN  /\ first_loaded' = loaded(SETTINGS, S)
           /\ IF S.once # "ready"
              THEN /\ SETTINGS' = S
                   /\ pc' = [pc EXCEPT ![t] = "idle"]
                   /\ data' = [data EXCEPT ![t] = NoFile]
                   /\ ret' = [ret EXCEPT ![t] =
                                Outcome("save", data[t], Panic("Failed to load settings file"))]
              ELSE IF S.poisoned
              THEN /\ SETTINGS' = S
                   /\ pc' = [pc EXCEPT ![t] = "idle"]
                   /\ data' = [data EXCEPT ![t] = NoFile]
                   /\ ret' = [ret EXCEPT ![t] =
                                Outcome("save", data[t], Panic("write config"))]
              ELSE /\ SETTINGS' = [S EXCEPT !.writer = t]
                   /\ pc' = [pc EXCEPT ![t] = "locked"]
                   /\ UNCHANGED <<data, ret>>
    /\ undisturbed' = disturb(t)
    /\ UNCHANGED <<env, fs, WEBFINGER_COMMUNITY_REGEX, WEBFINGER_USER_REGEX,
                   self_in, pure_out>>

\* save_config_file, lines 100-103: *new_settings = match Settings::init() {..}
save_config_file_reload(t) ==
    /\ pc[t] = "locked"
    /\ LET r == init(env, fs)
       IN  IF r.kind = "Ok"
           THEN /\ SETTINGS' = assign_settings(SETTINGS, r.val)
                /\ pc' = [pc EXCEPT ![t] = "reloaded"]
                /\ UNCHANGED <<data, ret>>
           ELSE /\ SETTINGS' = drop_guard_panicking(SETTINGS)
                /\ pc' = [pc EXCEPT ![t] = "idle"]
                /\ data' = [data EXCEPT ![t] = NoFile]
                /\ ret' = [ret EXCEPT ![t] = Outcome("save", data[t], Panic("reload"))]
    /\ undisturbed' = disturb(t)
    /\ UNCHANGED <<env, fs, WEBFINGER_COMMUNITY_REGEX, WEBFINGER_USER_REGEX,
                   first_loaded, self_in, pure_out>>

\* save_config_file, line 105: Ok(Self::read_config_file()?), then the guard drops
save_config_file_return(t) ==
    /\ pc[t] = "reloaded"
    /\ SETTINGS' = drop_guard(SETTINGS)
    /\ pc' = [pc EXCEPT ![t] = "idle"]
    /\ data' = [data EXCEPT ![t] = NoFile]
    /\ ret' = [ret EXCEPT ![t] = Outcome("save", data[t], read_config_file(env, fs))]
    /\ undisturbed' = disturb(t)
    /\ UNCHANGED <<env, fs, WEBFINGER_COMMUNITY_REGEX, WEBFINGER_USER_REGEX,
                   first_loaded, self_in, pure_out>>

\* Settings::webfinger_community_regex(&self)
webfinger_community_regex(t) ==
    /\ pc[t] = "idle"
    /\ WEBFINGER_COMMUNITY_REGEX.once = "uninit" => SETTINGS.writer = "none"
    /\ LET S == IF WEBFINGER_COMMUNITY_REGEX.once = "uninit"
                THEN deref_SETTINGS(SETTINGS, env, fs) ELSE SETTINGS
           W == deref_REGEX(WEBFINGER_COMMUNITY_REGEX, COMMUNITY_PREFIX, get_value(S))
       IN  /\ SETTINGS' = S
           /\ first_loaded' = loaded(SETTINGS, S)
           /\ WEBFINGER_COMMUNITY_REGEX' = W
           /\ ret' = [ret EXCEPT ![t] = Outcome("webfinger_community", NoFile, regex_value(W))]
    /\ UNCHANGED <<env, fs, WEBFINGER_USER_REGEX, pc, data, undisturbed,
                   self_in, pure_out>>

\* Settings::webfinger_username_regex(&self)
webfinger_username_regex(t) ==
    /\ pc[t] = "idle"
    /\ WEBFINGER_USER_REGEX.once = "uninit" => SETTINGS.writer = "none"
    /\ LET S == IF WEBFINGER_USER_REGEX.once = "uninit"
                THEN deref_SETTINGS(SETTINGS, env, fs) ELSE SETTINGS
           W == deref_REGEX(WEBFINGER_USER_REGEX, USER_PREFIX, get_value(S))
       IN  /\ SETTINGS' = S
           /\ first_loaded' = loaded(SETTINGS, S)
           /\ WEBFINGER_USER_REGEX' = W
           /\ ret' = [ret EXCEPT ![t] = Outcome("webfinger_username", NoFile, regex_value(W))]
    /\ UNCHANGED <<env, fs, WEBFINGER_COMMUNITY_REGEX, pc, data, undisturbed,
                   self_in, pure_out>>

\* Settings::get().slur_regex(): slur_regex on the snapshot the thread just got
slur_regex_of_snapshot(t) ==
    /\ pc[t] = "idle"
    /\ ret[t].op = "get" /\ ret[t].kind = "Ok"
    /\ ret' = [ret EXCEPT ![t] = Outcome("slur_regex", NoFile, slur_regex(ret[t].val))]
    /\ UNCHANGED <<env, fs, SETTINGS, WEBFINGER_COMMUNITY_REGEX, WEBFINGER_USER_REGEX,
                   pc, data, undisturbed, first_loaded, self_in, pure_out>>

Next ==
    \E t \in Threads :
        \/ get(t)
        \/ read(t)
        \/ \E d \in SaveTexts : save_config_file_write(t, d)
        \/ save_config_file_lock(t)
        \/ save_config_file_reload(t)
        \/ save_config_file_return(t)
        \/ webfinger_community_regex(t)
        \/ webfinger_username_regex(t)
        \/ slur_regex_of_snapshot(t)

Spec == Init /\ [][Next]_vars

(***************************************************************************)
(* The pure functions, applied to inputs drawn from bounded sets: the      *)
(* environment variable, the text of the config file, and a Settings       *)
(* record `self`.                                                          *)
(***************************************************************************)
HostChars == {"a", ":", "("}
FragChars == {"x", "(", ")"}

Hostnames == SeqsUpTo(HostChars, MaxHostLen) \cup {UNSET}
Fragments == {None} \cup {Some(x) : x \in SeqsUpTo(FragChars, MaxFragLen)}

PureEnvs == {NotPresent, NotUnicode, Present(""), Present("alt.hjson")}

PureTexts ==
    {Text(h, None, tls, 0) : h \in Hostnames, tls \in BOOLEAN}
        \cup {Text(h, Some(<<"x">>), TRUE, 1) : h \in {<<"a">>, UNSET}}
        \cup {Garbage, NoFile}

PureSelves ==
    {SettingsRec(h, None, TRUE) : h \in Hostnames}
        \cup {SettingsRec(<<"a">>, s, FALSE) : s \in Fragments}

InitPure ==
    /\ env \in PureEnvs
    /\ \E text \in PureTexts :
          fs = [p \in Paths |-> IF p = get_config_location(env) THEN text ELSE NoFile]
    /\ self_in \in PureSelves
    /\ pure_out = NoCall
    /\ SETTINGS = SETTINGS_uninit
    /\ WEBFINGER_COMMUNITY_REGEX = REGEX_uninit
    /\ WEBFINGER_USER_REGEX = REGEX_uninit
    /\ pc = [t \in Threads |-> "idle"]
    /\ data = [t \in Threads |-> NoFile]
    /\ ret = [t \in Threads |-> NoCall]
    /\ undisturbed = [t \in Threads |-> FALSE]
    /\ first_loaded = None

\* Settings::init(), called on its own (not through SETTINGS)
call_init ==
    /\ pure_out' = Outcome("init", NoFile, init(env, fs))
    /\ UNCHANGED <<store_vars, self_in>>

\* Settings::get_config_location()
call_get_config_location ==
    /\ pure_out' = Outcome("get_config_location", NoFile,
                           Ok([path |-> get_config_location(env)]))
    /\ UNCHANGED <<store_vars, self_in>>

\* self.get_hostname_without_port()
call_get_hostname_without_port ==
    /\ pure_out' = Outcome("get_hostname_without_port", NoFile,
                           get_hostname_without_port(self_in))
    /\ UNCHANGED <<store_vars, self_in>>

\* self.slur_regex()
call_slur_regex ==
    /\ pure_out' = Outcome("slur_regex", NoFile, slur_regex(self_in))
    /\ UNCHANGED <<store_vars, self_in>>

NextPure ==
    \/ call_init
    \/ call_get_config_location
    \/ call_get_hostname_without_port
    \/ call_slur_regex

SpecPure == InitPure /\ [][NextPure]_vars

(***************************************************************************)
(* Properties                                                              *)
(***************************************************************************)
\* the record a text decodes to, field by field
decoded(x) == SettingsRec(x.hostname, x.additional_slurs, x.tls_enabled)

\* a text that Settings::init() rejects: unparsable, or hostname "unset"
rejected(x) == x.syntax # "ok" \/ x.hostname = UNSET

\* the text of the config file (NoFile when there is none to read)
file_text ==
    IF get_config_location(env) \in Paths THEN fs[get_config_location(env)] ELSE NoFile

\* C1: once save_config_file(new_content) has returned successfully and no
\* other save_config_file has run a step since it began, get() returns the
\* record parsed from new_content, read_config_file() returns new_content and
\* the value returned was new_content.
C1_SaveThenGetAndRead ==
    \A t \in Threads :
        (ret[t].op = "save" /\ ret[t].kind = "Ok" /\ undisturbed[t]) =>
            /\ ret[t].val = ret[t].arg
            /\ ~rejected(ret[t].arg)
            /\ read_config_file(env, fs) = Ok(ret[t].arg)
            /\ SETTINGS.writer = "none"
            /\ get_now(SETTINGS, env, fs) = Ok(decoded(ret[t].arg))

\* C1 witness: a save that replaced the first loaded record by one with another
\* hostname has returned undisturbed, and another thread's get() has since
\* returned the new record.
C1_Witness ==
    \E t, u \in Threads :
        /\ t # u
        /\ ret[t].op = "save" /\ ret[t].kind = "Ok" /\ undisturbed[t]
        /\ first_loaded.some
        /\ first_loaded.val.hostname # ret[t].arg.hostname
        /\ ret[u].op = "get" /\ ret[u].kind = "Ok"
        /\ ret[u].val = decoded(ret[t].arg)

\* C2: for a readable config file that decodes into a Settings record, init()
\* fails with the hostname error iff the decoded hostname is "unset", whatever
\* the other fields; otherwise it returns the decoded record unchanged.
C2_InitHostnameInvariant ==
    (pure_out.op = "init" /\ file_text.syntax = "ok") =>
        IF file_text.hostname = UNSET
        THEN /\ pure_out.kind = "Err"
             /\ pure_out.val.err = "Hostname variable is not set!"
        ELSE /\ pure_out.kind = "Ok"
             /\ pure_out.val.hostname = file_text.hostname
             /\ pure_out.val.additional_slurs = file_text.additional_slurs
             /\ pure_out.val.tls_enabled = file_text.tls_enabled

\* C2 witness: init() has rejected a decodable file whose hostname is "unset"
\* and whose other fields are set.
C2_Witness ==
    /\ pure_out.op = "init"
    /\ pure_out.kind = "Err"
    /\ file_text.syntax = "ok"
    /\ file_text.hostname = UNSET
    /\ file_text.additional_slurs.some

\* C3 as stated: the hostname embedded in a webfinger regex is the hostname of
\* the record installed at the first initialisation of SETTINGS.
C3_RegexFromInitialSettings ==
    /\ WEBFINGER_COMMUNITY_REGEX.once = "ready" =>
          /\ first_loaded.some
          /\ embedded_hostname(WEBFINGER_COMMUNITY_REGEX.value.pattern)
                = first_loaded.val.hostname
    /\ WEBFINGER_USER_REGEX.once = "ready" =>
          /\ first_loaded.some
          /\ embedded_hostname(WEBFINGER_USER_REGEX.value.pattern)
                = first_loaded.val.hostname

\* C3 amended: each webfinger regex is computed at the first call of its own
\* accessor, from the hostname of the record cached at that moment, and never
\* changes afterwards.
C3_RegexFromSettingsAtFirstUse ==
    [][ /\ WEBFINGER_COMMUNITY_REGEX' # WEBFINGER_COMMUNITY_REGEX =>
              /\ WEBFINGER_COMMUNITY_REGEX.once = "uninit"
              /\ WEBFINGER_COMMUNITY_REGEX'.once = "ready" =>
                    /\ SETTINGS'.once = "ready"
                    /\ WEBFINGER_COMMUNITY_REGEX'.value.pattern
                          = COMMUNITY_PREFIX \o SETTINGS'.value.hostname \o <<"$">>
        /\ WEBFINGER_USER_REGEX' # WEBFINGER_USER_REGEX =>
              /\ WEBFINGER_USER_REGEX.once = "uninit"
              /\ WEBFINGER_USER_REGEX'.once = "ready" =>
                    /\ SETTINGS'.once = "ready"
                    /\ WEBFINGER_USER_REGEX'.value.pattern
                          = USER_PREFIX \o SETTINGS'.value.hostname \o <<"$">>
      ]_vars

\* C3 witness: the community regex was computed after a save had replaced the
\* first loaded hostname, and the cache has been replaced again since; the two
\* regexes embed different hostnames.
C3_Witness ==
    /\ WEBFINGER_COMMUNITY_REGEX.once = "ready"
    /\ WEBFINGER_USER_REGEX.once = "ready"
    /\ first_loaded.some
    /\ embedded_hostname(WEBFINGER_COMMUNITY_REGEX.value.pattern)
          # first_loaded.val.hostname
    /\ embedded_hostname(WEBFINGER_COMMUNITY_REGEX.value.pattern)
          # SETTINGS.value.hostname
    /\ embedded_hostname(WEBFINGER_COMMUNITY_REGEX.value.pattern)
          # embedded_hostname(WEBFINGER_USER_REGEX.value.pattern)

\* C4 as stated: no thread can observe the file holding a save's new content
\* while get() still returns another record, and every save_config_file call
\* returns the content it wrote itself.
C4_SaveIsAtomic ==
    /\ \A t \in Threads :
          (pc[t] = "written" /\ ~rejected(data[t]) /\ SETTINGS.writer = "none"
              /\ read_config_file(env, fs) = Ok(data[t])
              /\ get_now(SETTINGS, env, fs).kind = "Ok") =>
              get_now(SETTINGS, env, fs).val = decoded(data[t])
    /\ \A t \in Threads :
          (ret[t].op = "save" /\ ret[t].kind = "Ok") => ret[t].val = ret[t].arg

\* C5 as stated: the environment variable is used when set and non-empty, the
\* default path in every other case.
C5_EmptyVariableMeansDefault ==
    pure_out.op = "get_config_location" =>
        pure_out.val.path =
            IF env.kind = "Present" /\ env.val # "" THEN env.val
            ELSE DEFAULT_CONFIG_FILE

\* C5 amended: get_config_location() returns the value of the variable whenever
\* it is set to valid Unicode, the empty string included, and the default path
\* when it is unset or not valid Unicode.
C5_LocationFromVariable ==
    pure_out.op = "get_config_location" =>
        /\ pure_out.kind = "Ok"
        /\ env.kind = "Present" => pure_out.val.path = env.val
        /\ env.kind \in {"NotPresent", "NotUnicode"} =>
              pure_out.val.path = "config/config.hjson"

\* C5 witness: the variable is set to the empty string and the empty path was
\* returned.
C5_Witness ==
    /\ pure_out.op = "get_config_location"
    /\ env = Present("")
    /\ pure_out.val.path = ""

\* C6 as stated: a slur_regex call whose pattern does not compile hands the
\* failure back as an error value.
C6_SlurFailureIsReturned ==
    \A t \in Threads :
        ret[t].op = "slur_regex" => ret[t].kind \in {"Ok", "Err"}

\* C6 amended: a slur_regex call whose additional_slurs fragment does not
\* compile panics in the calling thread and returns nothing; a call without a
\* fragment returns a regex; either way SETTINGS is left as it was, so get()
\* answers as before.
C6_SlurFailurePanics ==
    [][ \A t \in Threads :
          (ret[t].op = "get" /\ ret'[t].op = "slur_regex") =>
              /\ (ret[t].val.additional_slurs.some
                    /\ ~RegexCompiles(ret[t].val.additional_slurs.val))
                  => ret'[t].kind = "Panic"
              /\ ~ret[t].val.additional_slurs.some => ret'[t].kind = "Ok"
              /\ SETTINGS' = SETTINGS
              /\ get_now(SETTINGS', env', fs') = get_now(SETTINGS, env, fs)
      ]_vars

\* C6 witness: a slur_regex call has panicked, the lock is not poisoned and
\* get() still yields the cached record.
C6_Witness ==
    \E t \in Threads :
        /\ ret[t].op = "slur_regex"
        /\ ret[t].kind = "Panic"
        /\ SETTINGS.writer = "none"
        /\ get_now(SETTINGS, env, fs).kind = "Ok"
        /\ get_now(SETTINGS, env, fs).val.additional_slurs.some

\* the characters of h before its first ':' (all of h when it has none)
before_first_colon(h) ==
    LET n == CHOOSE k \in 0..Len(h) :
                 /\ \A i \in 1..k : h[i] # ":"
                 /\ k = Len(h) \/ h[k + 1] = ":"
    IN  [i \in 1..n |-> h[i]]

\* C7 as stated: the characters before the first ':' for a non-empty hostname,
\* the malformed-hostname error for the empty hostname.
C7_EmptyHostnameFails ==
    pure_out.op = "get_hostname_without_port" =>
        IF self_in.hostname = <<>>
        THEN pure_out.kind = "Err"
        ELSE /\ pure_out.kind = "Ok"
             /\ pure_out.val.str = before_first_colon(self_in.hostname)

\* C7 amended: for every hostname, the empty one included,
\* get_hostname_without_port returns the characters before the first ':' (the
\* empty string for the empty hostname); it never fails.
C7_HostnameBeforeFirstColon ==
    pure_out.op = "get_hostname_without_port" =>
        /\ pure_out.kind = "Ok"
        /\ pure_out.val.str = before_first_colon(self_in.hostname)

\* C7 witness: the function has returned the empty string for the empty hostname.
C7_Witness ==
    /\ pure_out.op = "get_hostname_without_port"
    /\ self_in.hostname = <<>>
    /\ pure_out.kind = "Ok"
    /\ pure_out.val.str = <<>>

\* C8: when the re-run of init() inside save_config_file fails, the call
\* panics holding the write lock: the file keeps the rejected text, the lock is
\* poisoned for good, the cached record is never replaced again, and every
\* get() and save_config_file that finishes afterwards panics.
C8_FailedReloadIsFatal ==
    [][ /\ \A t \in Threads :
              (pc[t] = "locked" /\ pc'[t] # "locked" /\ rejected(file_text)) =>
                  /\ SETTINGS'.poisoned
                  /\ fs' = fs
                  /\ ret'[t].op = "save" /\ ret'[t].kind = "Panic"
        /\ SETTINGS.poisoned =>
              /\ SETTINGS'.poisoned
              /\ SETTINGS'.value = SETTINGS.value
              /\ \A t \in Threads :
                    (ret'[t] # ret[t] /\ ret'[t].op \in {"get", "save"}) =>
                        ret'[t].kind = "Panic"
      ]_vars

\* C8 witness: after a failed reload, a get() has panicked on the poisoned
\* lock and a later save_config_file of a valid text has panicked too.
C8_Witness ==
    \E t, u \in Threads :
        /\ SETTINGS.poisoned
        /\ ret[t].op = "get" /\ ret[t].kind = "Panic"
        /\ ret[u].op = "save" /\ ret[u].kind = "Panic"
        /\ ~rejected(ret[u].arg)
        /\ file_text = ret[u].arg

\* C9: the cached record, and every record get() has returned, has a hostname
\* other than "unset" and is the decoding of a text init() accepts.
C9_CachedRecordIsValid ==
    /\ SETTINGS.once = "ready" =>
          /\ SETTINGS.value.hostname # UNSET
          /\ \E x \in StoreTexts : ~rejected(x) /\ SETTINGS.value = decoded(x)
    /\ \A t \in Threads :
          (ret[t].op = "get" /\ ret[t].kind = "Ok") =>
              /\ ret[t].val.hostname # UNSET
              /\ \E x \in StoreTexts : ~rejected(x) /\ ret[t].val = decoded(x)

\* C9 witness: a save of a text with hostname "unset" has failed; the cache
\* still holds the valid record a get() returned before.
C9_Witness ==
    \E t, u \in Threads :
        /\ ret[u].op = "save" /\ ret[u].kind = "Panic"
        /\ ret[u].arg.syntax = "ok" /\ ret[u].arg.hostname = UNSET
        /\ file_text = ret[u].arg
        /\ ret[t].op = "get" /\ ret[t].kind = "Ok"
        /\ SETTINGS.once = "ready"
        /\ SETTINGS.value = ret[t].val

\* C10: once every save_config_file call has returned and none has panicked,
\* the cached record is the decoding of the file's final text.
C10_CacheMatchesFinalFile ==
    ((\A t \in Threads : pc[t] = "idle")
        /\ SETTINGS.once = "ready" /\ ~SETTINGS.poisoned) =>
        /\ read_config_file(env, fs).kind = "Ok"
        /\ ~rejected(file_text)
        /\ SETTINGS.value = decoded(file_text)

\* C10 witness: two overlapping saves of different valid texts have both
\* returned, one of them with the text the other wrote.
C10_Witness ==
    \E t, u \in Threads :
        /\ t # u
        /\ pc[t] = "idle" /\ pc[u] = "idle"
        /\ ret[t].op = "save" /\ ret[t].kind = "Ok"
        /\ ret[u].op = "save" /\ ret[u].kind = "Ok"
        /\ ret[t].arg # ret[u].arg
        /\ ret[t].val # ret[t].arg
        /\ ~SETTINGS.poisoned

====
